---------------------------- MODULE Spec2Model ----------------------------
(***************************************************************************)
(* Model of the Extism C/C++ plugin development kit (src/cpp-pdk,          *)
(* src/c-pdk): the Memory and HttpResponse ownership wrappers, the Host    *)
(* facade (variables, config, HTTP helper) and the three hello entry       *)
(* points.  The host runtime is the environment: its primitives are only   *)
(* declared in extism_pdk.h, so they are modelled from their documented    *)
(* contract and every host call a guest operation makes is logged.         *)
(***************************************************************************)
EXTENDS Integers, Sequences, FiniteSets, TLC

VARIABLES
    host,   \* the host runtime: memory blocks, variable store, config, call log
    mem,    \* the extism::Memory objects of the guest
    resp,   \* the extism::HttpResponse objects of the guest
    last,   \* the guest operation that ran last, with its arguments and result
    ghost   \* per variable name, the bytes last given to Host::var_set

vars == <<host, mem, resp, last, ghost>>

(***************************************************************************)
(* Bounds of the model.                                                    *)
(***************************************************************************)
MaxObjs == 2        \* Memory objects (and HttpResponse objects) a run uses
MaxSize == 1        \* largest size passed to Memory(size)
MaxRequests == 1    \* HTTP requests a run makes

(***************************************************************************)
(* Bytes are one-character strings; "NUL" stands for the zero byte.        *)
(***************************************************************************)
NUL == "NUL"
DataBytes == {"a", NUL}

RECURSIVE SeqsUpTo(_, _)
SeqsUpTo(S, n) ==
    IF n = 0 THEN {<<>>}
    ELSE LET shorter == SeqsUpTo(S, n - 1)
         IN  shorter \cup {Append(s, x) : s \in {t \in shorter : Len(t) = n - 1}, x \in S}

Zeros(n) == [i \in 1..n |-> NUL]

Min(a, b) == IF a < b THEN a ELSE b

(***************************************************************************)
(* The host runtime.  A host state h is a record:                          *)
(*   blocks    offset -> bytes of every block handed out and not released  *)
(*   badFree   the arguments of extism_free calls that named no live block *)
(*   store     variable name -> bytes, for the names that are set          *)
(*   config    configuration key -> bytes, for the keys that are set       *)
(*   requests  the number of HTTP requests served                          *)
(*   input     the input bytes of the plugin call in progress              *)
(*   log       the host calls of the guest operation in progress           *)
(* Offsets are never 0; the host hands out the lowest offset not in use.   *)
(***************************************************************************)
Logged(h, call) == [h EXCEPT !.log = Append(@, call)]

Fresh(h) ==
    CHOOSE p \in 1..(Cardinality(DOMAIN h.blocks) + 1) :
        /\ p \notin DOMAIN h.blocks
        /\ \A q \in 1..(p - 1) : q \in DOMAIN h.blocks

NewBlock(h, data) == [h EXCEPT !.blocks = (Fresh(h) :> data) @@ @]

\* uint64_t extism_alloc(uint64_t size): a fresh block of `size` bytes.
AllocRet(h) == Fresh(h)

extism_alloc(h, size) ==
    Logged(NewBlock(h, Zeros(size)),
           [fn |-> "extism_alloc", size |-> size, ret |-> Fresh(h)])

\* void extism_free(uint64_t pointer)
extism_free(h, ptr) ==
    Logged([h EXCEPT !.blocks = [p \in DOMAIN @ \ {ptr} |-> @[p]],
                     !.badFree = IF ptr \in DOMAIN h.blocks THEN @ ELSE @ \cup {ptr}],
           [fn |-> "extism_free", ptr |-> ptr])

\* `ptr` has been passed to extism_free and not been handed out again since.
\* The guest holds no offsets but 0 and those the host returned, so a non-zero
\* offset that names no block is one that was released.
Released(h, ptr) == ptr \notin DOMAIN h.blocks /\ (ptr = 0 => 0 \in h.badFree)

\* uint64_t extism_length(uint64_t pointer): the host's bookkeeping.
LengthRet(h, ptr) == IF ptr \in DOMAIN h.blocks THEN Len(h.blocks[ptr]) ELSE 0

extism_length(h, ptr) ==
    Logged(h, [fn |-> "extism_length", ptr |-> ptr, ret |-> LengthRet(h, ptr),
               released |-> Released(h, ptr)])

\* void extism_load_u8(pointer, offset, length, buffer): the bytes read; the
\* host checks the bounds, and a range outside the block reads as zero bytes.
LoadRet(h, ptr, off, n) ==
    [i \in 1..n |->
        IF ptr \in DOMAIN h.blocks /\ off + i <= Len(h.blocks[ptr])
        THEN h.blocks[ptr][off + i] ELSE NUL]

extism_load_u8(h, ptr, off, n) ==
    Logged(h, [fn |-> "extism_load_u8", ptr |-> ptr, off |-> off, len |-> n,
               released |-> Released(h, ptr)])

\* void extism_store_u8(pointer, offset, data, length): the host checks the
\* bounds and writes only inside a live block.
extism_store_u8(h, ptr, off, data) ==
    Logged(IF ptr \in DOMAIN h.blocks /\ off + Len(data) <= Len(h.blocks[ptr])
           THEN [h EXCEPT !.blocks[ptr] =
                    [i \in 1..Len(@) |->
                        IF i > off /\ i <= off + Len(data) THEN data[i - off] ELSE @[i]]]
           ELSE h,
           [fn |-> "extism_store_u8", ptr |-> ptr, off |-> off, data |-> data,
            released |-> Released(h, ptr)])

Begin(h) == [h EXCEPT !.log = <<>>]

HostInit ==
    [blocks |-> <<>>, badFree |-> {},
     store |-> <<>>, config |-> <<>>, requests |-> 0, input |-> <<>>, log |-> <<>>]

calls == host.log

(***************************************************************************)
(* extism::Memory (extism_pdk.h 130-248).  An object is a record           *)
(* [st, offset, length]; st is "none" before construction, "live" between  *)
(* construction and destruction, "dead" after.  Each method maps the host  *)
(* state and the objects it touches to their new values.                   *)
(***************************************************************************)
MemObjs == 1..MaxObjs
MemStrings == {<<>>, <<"a">>}     \* arguments of from_string and store
NoObject == [st |-> "none", offset |-> 0, length |-> 0]

\* explicit Memory(uint64_t size)
Memory_ctor(h, size) ==
    [host |-> extism_alloc(h, size),
     self |-> [st |-> "live", offset |-> AllocRet(h), length |-> size]]

\* ~Memory()
Memory_dtor(h, self) ==
    [host |-> extism_free(h, self.offset),
     self |-> [self EXCEPT !.st = "dead"]]

\* Memory(Memory&& other) noexcept
Memory_move_ctor(other) ==
    [self  |-> [st |-> "live", offset |-> other.offset, length |-> other.length],
     other |-> [other EXCEPT !.offset = 0, !.length = 0]]

\* Memory& operator=(Memory&& other) noexcept, for this != &other
Memory_move_assign(h, self, other) ==
    [host  |-> IF self.offset # 0 THEN extism_free(h, self.offset) ELSE h,
     self  |-> [self EXCEPT !.offset = other.offset, !.length = other.length],
     other |-> [other EXCEPT !.offset = 0, !.length = 0]]

\* void store_string(const std::string& str, uint64_t offset_val)
Memory_store_string(h, self, str, offset_val) ==
    extism_store_u8(h, self.offset, offset_val, str)

\* void store(const std::vector<uint8_t>& data, uint64_t offset_val)
Memory_store(h, self, data, offset_val) ==
    extism_store_u8(h, self.offset, offset_val, data)

\* void store_from_start(const std::vector<uint8_t>& data)
Memory_store_from_start(h, self, data) == Memory_store(h, self, data, 0)

\* uint64_t len() const
Memory_len(h, self) == extism_length(h, self.offset)

\* std::vector<uint8_t> load(uint64_t offset_val, uint64_t length_val) const
Memory_load(h, self, offset_val, length_val) ==
    extism_load_u8(h, self.offset, offset_val, length_val)

\* std::vector<uint8_t> load_all() const: load(0, len())
Memory_load_all(h, self) ==
    Memory_load(Memory_len(h, self), self, 0, LengthRet(h, self.offset))

LoadAllRet(h, self) == LoadRet(h, self.offset, 0, LengthRet(h, self.offset))

\* static Memory from_string(const std::string& str).  The local `mem` is
\* returned by value: the compiler either constructs it in place (copy
\* elision) or move-constructs the result and destroys the local.
Memory_from_string(h, str, elided) ==
    LET c == Memory_ctor(h, Len(str))
        h2 == Memory_store_string(c.host, c.self, str, 0)
    IN  IF elided
        THEN [host |-> h2, self |-> c.self]
        ELSE LET mv == Memory_move_ctor(c.self)
             IN  [host |-> Memory_dtor(h2, mv.other).host, self |-> mv.self]

MemInit ==
    /\ host = HostInit
    /\ mem = [o \in MemObjs |-> NoObject]
    /\ resp = [o \in MemObjs |-> [st |-> "none", ptr |-> 0]]
    /\ last = [op |-> "init"]
    /\ ghost = <<>>

MemConstruct(o, size) ==
    /\ mem[o].st = "none"
    /\ LET r == Memory_ctor(Begin(host), size)
       IN  /\ host' = r.host
           /\ mem' = [mem EXCEPT ![o] = r.self]
           /\ last' = [op |-> "Memory", obj |-> o]
    /\ UNCHANGED <<resp, ghost>>

MemFromString(o, str, elided) ==
    /\ mem[o].st = "none"
    /\ LET r == Memory_from_string(Begin(host), str, elided)
       IN  /\ host' = r.host
           /\ mem' = [mem EXCEPT ![o] = r.self]
           /\ last' = [op |-> "from_string", obj |-> o, elided |-> elided]
    /\ UNCHANGED <<resp, ghost>>

MemMoveConstruct(o, p) ==
    /\ mem[o].st = "none"
    /\ mem[p].st = "live"
    /\ LET r == Memory_move_ctor(mem[p])
       IN  /\ mem' = [mem EXCEPT ![o] = r.self, ![p] = r.other]
           /\ host' = Begin(host)
           /\ last' = [op |-> "move_ctor", obj |-> o, other |-> p]
    /\ UNCHANGED <<resp, ghost>>

MemMoveAssign(o, p) ==
    /\ mem[o].st = "live"
    /\ mem[p].st = "live"
    /\ IF o = p
       THEN /\ host' = Begin(host)
            /\ mem' = mem
       ELSE LET r == Memory_move_assign(Begin(host), mem[o], mem[p])
            IN  /\ host' = r.host
                /\ mem' = [mem EXCEPT ![o] = r.self, ![p] = r.other]
    /\ last' = [op |-> "move_assign", obj |-> o, other |-> p, was |-> mem[o].offset]
    /\ UNCHANGED <<resp, ghost>>

MemDestroy(o) ==
    /\ mem[o].st = "live"
    /\ LET r == Memory_dtor(Begin(host), mem[o])
       IN  /\ host' = r.host
           /\ mem' = [mem EXCEPT ![o] = r.self]
           /\ last' = [op |-> "~Memory", obj |-> o, was |-> mem[o].offset]
    /\ UNCHANGED <<resp, ghost>>

MemLen(o) ==
    /\ mem[o].st = "live"
    /\ host' = Memory_len(Begin(host), mem[o])
    /\ last' = [op |-> "len", obj |-> o, ret |-> LengthRet(host, mem[o].offset)]
    /\ UNCHANGED <<mem, resp, ghost>>

MemStore(o, data) ==
    /\ mem[o].st = "live"
    /\ host' = Memory_store_from_start(Begin(host), mem[o], data)
    /\ last' = [op |-> "store", obj |-> o]
    /\ UNCHANGED <<mem, resp, ghost>>

MemLoad(o) ==
    /\ mem[o].st = "live"
    /\ host' = Memory_load_all(Begin(host), mem[o])
    /\ last' = [op |-> "load_all", obj |-> o, ret |-> LoadAllRet(host, mem[o])]
    /\ UNCHANGED <<mem, resp, ghost>>

MemNext ==
    \/ \E o \in MemObjs, size \in 0..MaxSize : MemConstruct(o, size)
    \/ \E o \in MemObjs, str \in MemStrings, e \in BOOLEAN :
          MemFromString(o, str, e)
    \/ \E o, p \in MemObjs : MemMoveConstruct(o, p)
    \/ \E o, p \in MemObjs : MemMoveAssign(o, p)
    \/ \E o \in MemObjs : MemDestroy(o)
    \/ \E o \in MemObjs : MemLen(o)
    \/ \E o \in MemObjs, data \in MemStrings : MemStore(o, data)
    \/ \E o \in MemObjs : MemLoad(o)

SpecMemory == MemInit /\ [][MemNext]_vars

(***************************************************************************)
(* Host variable store, configuration and HTTP primitives.                 *)
(***************************************************************************)
None == [present |-> FALSE]
Some(v) == [present |-> TRUE, value |-> v]

Take(s, n) == SubSeq(s, 1, Min(n, Len(s)))

\* A lookup hands out a fresh block holding the value, or the zero handle
\* when the key is not set.
LookupRet(h, table, key) == IF key \in DOMAIN table THEN Fresh(h) ELSE 0

Lookup(h, table, key, fn) ==
    Logged(IF key \in DOMAIN table THEN NewBlock(h, table[key]) ELSE h,
           [fn |-> fn, name |-> key, ret |-> LookupRet(h, table, key)])

\* uint64_t extism_var_get(const uint8_t* name, uint64_t name_length)
VarGetRet(h, name, name_length) == LookupRet(h, h.store, Take(name, name_length))

extism_var_get(h, name, name_length) ==
    Lookup(h, h.store, Take(name, name_length), "extism_var_get")

\* uint64_t extism_config_get(const uint8_t* key, uint64_t key_length)
ConfigGetRet(h, key, key_length) == LookupRet(h, h.config, Take(key, key_length))

extism_config_get(h, key, key_length) ==
    Lookup(h, h.config, Take(key, key_length), "extism_config_get")

\* void extism_var_set(name, name_length, value, value_length)
extism_var_set(h, name, name_length, value, value_length) ==
    Logged([h EXCEPT !.store =
               (Take(name, name_length) :> Take(value, value_length)) @@ @],
           [fn |-> "extism_var_set", name |-> Take(name, name_length),
            value |-> Take(value, value_length)])

REQUEST_METHOD == <<"r", "e", "q", "u", "e", "s", "t", ":", "m", "e", "t", "h", "o", "d">>
REQUEST_URL == <<"r", "e", "q", "u", "e", "s", "t", ":", "u", "r", "l">>
REQUEST_HEADER == <<"r", "e", "q", "u", "e", "s", "t", ":", "h", "e", "a", "d", "e", "r", ":">>
REQUEST_BODY == <<"r", "e", "q", "u", "e", "s", "t", ":", "b", "o", "d", "y">>
RESPONSE_BODY == <<"r", "e", "s", "p", "o", "n", "s", "e", ":", "b", "o", "d", "y">>
RESPONSE_HEADER == <<"r", "e", "s", "p", "o", "n", "s", "e", ":", "h", "e", "a", "d", "e", "r", ":">>

\* The header names of the model, in the order std::map iterates them.
HeaderKeys == << <<"A">>, <<"B">> >>
HeaderKeySet == {HeaderKeys[i] : i \in 1..Len(HeaderKeys)}

\* int32_t extism_http_request(uint64_t request, uint64_t* response).  What
\* the host answers is the environment's choice `env`: the status, whether
\* it writes *response (a fresh opaque block), and the response variables
\* it leaves in the store.
HttpRequestPtr(h, env) == IF env.writes THEN Fresh(h) ELSE 0

WithoutResponse(store) ==
    [k \in {n \in DOMAIN store : Take(n, 9) # Take(RESPONSE_BODY, 9)} |-> store[k]]

extism_http_request(h, request, env) ==
    Logged([h EXCEPT !.blocks = IF env.writes THEN (Fresh(h) :> <<>>) @@ @ ELSE @,
                     !.store = env.vars @@ WithoutResponse(@),
                     !.requests = @ + 1],
           [fn |-> "extism_http_request", request |-> request,
            status |-> env.status, response |-> HttpRequestPtr(h, env)])

(***************************************************************************)
(* extism::HttpResponse (extism_pdk.h 292-376): a record [st, ptr].        *)
(***************************************************************************)
NoResponse == [st |-> "none", ptr |-> 0]

\* The block every lookup repeats once it holds a non-zero handle:
\* extism_length, extism_load_u8(ptr, 0, len), extism_free.
ReadAndFree(h, ptr) ==
    LET len == LengthRet(h, ptr)
        h1 == extism_length(h, ptr)
        data == LoadRet(h1, ptr, 0, len)
    IN  [host |-> extism_free(extism_load_u8(h1, ptr, 0, len), ptr), data |-> data]

\* explicit HttpResponse(uint64_t ptr)
HttpResponse_ctor(ptr) == [st |-> "live", ptr |-> ptr]

\* std::vector<uint8_t> body() const
HttpResponse_body(h, self) ==
    LET body_ptr == VarGetRet(h, RESPONSE_BODY, 13)
        h1 == extism_var_get(h, RESPONSE_BODY, 13)
    IN  IF body_ptr = 0
        THEN [host |-> h1, ret |-> <<>>]
        ELSE LET r == ReadAndFree(h1, body_ptr)
             IN  [host |-> r.host, ret |-> r.data]

\* std::optional<std::string> header(const std::string& name) const
HttpResponse_header(h, self, name) ==
    LET header_var == RESPONSE_HEADER \o name
        header_ptr == VarGetRet(h, header_var, Len(header_var))
        h1 == extism_var_get(h, header_var, Len(header_var))
    IN  IF header_ptr = 0
        THEN [host |-> h1, ret |-> None]
        ELSE LET r == ReadAndFree(h1, header_ptr)
             IN  [host |-> r.host, ret |-> Some(r.data)]

\* ~HttpResponse()
HttpResponse_dtor(h, self) ==
    [host |-> extism_free(h, self.ptr),
     self |-> [self EXCEPT !.st = "dead"]]

\* HttpResponse(HttpResponse&& other) noexcept
HttpResponse_move_ctor(other) ==
    [self  |-> [st |-> "live", ptr |-> other.ptr],
     other |-> [other EXCEPT !.ptr = 0]]

\* HttpResponse& operator=(HttpResponse&& other) noexcept, for this != &other
HttpResponse_move_assign(h, self, other) ==
    [host  |-> IF self.ptr # 0 THEN extism_free(h, self.ptr) ELSE h,
     self  |-> [self EXCEPT !.ptr = other.ptr],
     other |-> [other EXCEPT !.ptr = 0]]

(***************************************************************************)
(* extism::Host (extism_pdk.h 381-566).                                    *)
(***************************************************************************)
\* Host::config without the test for the zero handle.
Host_config_NoNullCheck(h, key) ==
    LET ptr == ConfigGetRet(h, key, Len(key))
        r == ReadAndFree(extism_config_get(h, key, Len(key)), ptr)
    IN  [host |-> r.host, ret |-> Some(r.data)]

\* static std::optional<std::string> config(const std::string& key)
Host_config(h, key) ==
    LET ptr == ConfigGetRet(h, key, Len(key))
        h1 == extism_config_get(h, key, Len(key))
    IN  IF ptr = 0
        THEN [host |-> h1, ret |-> None]
        ELSE LET r == ReadAndFree(h1, ptr)
             IN  [host |-> r.host, ret |-> Some(r.data)]

\* Host::var_get with an empty block taken for a missing variable.
Host_var_get_EmptyIsAbsent(h, name) ==
    LET ptr == VarGetRet(h, name, Len(name))
        h1 == extism_var_get(h, name, Len(name))
    IN  IF ptr = 0 \/ LengthRet(h1, ptr) = 0
        THEN [host |-> h1, ret |-> None]
        ELSE LET r == ReadAndFree(h1, ptr)
             IN  [host |-> r.host, ret |-> Some(r.data)]

\* static std::optional<std::vector<uint8_t>> var_get(const std::string& name)
Host_var_get(h, name) ==
    LET ptr == VarGetRet(h, name, Len(name))
        h1 == extism_var_get(h, name, Len(name))
    IN  IF ptr = 0
        THEN [host |-> h1, ret |-> None]
        ELSE LET r == ReadAndFree(h1, ptr)
             IN  [host |-> r.host, ret |-> Some(r.data)]

\* static std::optional<std::string> var_get_string(const std::string& name)
Host_var_get_string(h, name) ==
    LET data_opt == Host_var_get(h, name)
    IN  IF ~data_opt.ret.present
        THEN [host |-> data_opt.host, ret |-> None]
        ELSE [host |-> data_opt.host, ret |-> Some(data_opt.ret.value)]

\* static void var_set(const std::string& name, const std::vector<uint8_t>& value)
Host_var_set(h, name, value) ==
    extism_var_set(h, name, Len(name), value, Len(value))

\* static void var_set_string(const std::string& name, const std::string& value)
Host_var_set_string(h, name, value) ==
    extism_var_set(h, name, Len(name), value, Len(value))

\* inline std::string http_method_to_string(HttpMethod method)
HttpMethod == {"Get", "Post", "Put", "Delete", "Patch", "Head", "Options"}

http_method_to_string(method) ==
    CASE method = "Get" -> <<"G", "E", "T">>
      [] method = "Post" -> <<"P", "O", "S", "T">>
      [] method = "Put" -> <<"P", "U", "T">>
      [] method = "Delete" -> <<"D", "E", "L", "E", "T", "E">>
      [] method = "Patch" -> <<"P", "A", "T", "C", "H">>
      [] method = "Head" -> <<"H", "E", "A", "D">>
      [] method = "Options" -> <<"O", "P", "T", "I", "O", "N", "S">>
      [] OTHER -> <<"G", "E", "T">>

\* for (const auto& [key, value] : request.headers) var_set_string(...):
\* the headers from position i of the map's order on.
RECURSIVE SetHeaders(_, _, _)
SetHeaders(h, headers, i) ==
    IF i > Len(HeaderKeys) THEN h
    ELSE IF HeaderKeys[i] \in DOMAIN headers
         THEN SetHeaders(Host_var_set_string(h, REQUEST_HEADER \o HeaderKeys[i],
                                             headers[HeaderKeys[i]]),
                         headers, i + 1)
         ELSE SetHeaders(h, headers, i + 1)

\* Host::http_request failing only on a negative status.
Host_http_request_NegativeOnly(h, request, env) ==
    LET h1 == Host_var_set_string(h, REQUEST_METHOD, http_method_to_string(request.method))
        h2 == Host_var_set_string(h1, REQUEST_URL, request.url)
        h3 == SetHeaders(h2, request.headers, 1)
        h4 == IF request.body.present
              THEN Host_var_set(h3, REQUEST_BODY, request.body.value)
              ELSE h3
        h5 == extism_http_request(h4, 0, env)
    IN  IF env.status < 0
        THEN [host |-> h5, threw |-> TRUE, ret |-> NoResponse]
        ELSE [host |-> h5, threw |-> FALSE,
              ret |-> HttpResponse_ctor(HttpRequestPtr(h4, env))]

\* Host::http_request writing request:body after the request is made.
Host_http_request_BodyLate(h, request, env) ==
    LET h1 == Host_var_set_string(h, REQUEST_METHOD, http_method_to_string(request.method))
        h2 == Host_var_set_string(h1, REQUEST_URL, request.url)
        h3 == SetHeaders(h2, request.headers, 1)
        h4 == extism_http_request(h3, 0, env)
        h5 == IF request.body.present
              THEN Host_var_set(h4, REQUEST_BODY, request.body.value)
              ELSE h4
    IN  IF env.status # 0
        THEN [host |-> h5, threw |-> TRUE, ret |-> NoResponse]
        ELSE [host |-> h5, threw |-> FALSE,
              ret |-> HttpResponse_ctor(HttpRequestPtr(h3, env))]

\* static std::unique_ptr<HttpResponse> http_request(const HttpRequest& request)
\* threw: std::runtime_error("HTTP request failed") left the call.
Host_http_request(h, request, env) ==
    LET h1 == Host_var_set_string(h, REQUEST_METHOD, http_method_to_string(request.method))
        h2 == Host_var_set_string(h1, REQUEST_URL, request.url)
        h3 == SetHeaders(h2, request.headers, 1)
        h4 == IF request.body.present
              THEN Host_var_set(h3, REQUEST_BODY, request.body.value)
              ELSE h3
        response_ptr == HttpRequestPtr(h4, env)
        status == env.status
        h5 == extism_http_request(h4, 0, env)
    IN  IF status # 0
        THEN [host |-> h5, threw |-> TRUE, ret |-> NoResponse]
        ELSE [host |-> h5, threw |-> FALSE, ret |-> HttpResponse_ctor(response_ptr)]


(***************************************************************************)
(* The Host facade and HttpResponse as a state machine: variables are set  *)
(* and read, configuration is read, HTTP requests are made against a host  *)
(* that answers as it likes, and responses are read, moved and destroyed.  *)
(***************************************************************************)
RespObjs == 1..MaxObjs
SetNames == {<<"k">>}              \* names given to var_set
GetNames == {<<"k">>, <<"j">>}     \* names given to var_get
Values == {<<>>, <<"a", NUL>>}
ConfigKeys == {<<"c">>, <<"d">>}
Configs == {(<<"c">> :> <<"a">>)}     \* the host sets "c" and not "d"

Requests ==
    {[method |-> "Get", url |-> <<"u">>, headers |-> <<>>, body |-> None],
     [method |-> "Post", url |-> <<"u">>, headers |-> (<<"A">> :> <<"v">>),
      body |-> Some(<<"a">>)],
     [method |-> "Delete", url |-> <<>>,
      headers |-> (<<"A">> :> <<"v">>) @@ (<<"B">> :> <<"w">>), body |-> Some(<<>>)]}

ResponseVars ==
    {<<>>,
     (RESPONSE_BODY :> <<"a">>),
     (RESPONSE_BODY :> <<>>) @@ ((RESPONSE_HEADER \o <<"A">>) :> <<"v">>)}

HttpEnvs ==
    {[status |-> 0, writes |-> TRUE, vars |-> v] : v \in ResponseVars}
        \cup {[status |-> 1, writes |-> TRUE, vars |-> <<>>],
              [status |-> -1, writes |-> FALSE, vars |-> <<>>]}

HostInitStates ==
    /\ \E c \in Configs : host = [HostInit EXCEPT !.config = c]
    /\ mem = [o \in MemObjs |-> NoObject]
    /\ resp = [o \in RespObjs |-> NoResponse]
    /\ last = [op |-> "init"]
    /\ ghost = <<>>

\* The names whose value the calls of the operation just run have replaced.
Written(h) ==
    {h.log[i].name : i \in {j \in 1..Len(h.log) : h.log[j].fn = "extism_var_set"}}

Forget(g, names) == [k \in DOMAIN g \ names |-> g[k]]

VarSet(name, value) ==
    /\ host' = Host_var_set(Begin(host), name, value)
    /\ ghost' = (name :> value) @@ ghost
    /\ last' = [op |-> "var_set", name |-> name, value |-> value]
    /\ UNCHANGED <<mem, resp>>

VarGet(name) ==
    /\ LET r == Host_var_get(Begin(host), name)
       IN  /\ host' = r.host
           /\ last' = [op |-> "var_get", name |-> name, ret |-> r.ret]
    /\ UNCHANGED <<mem, resp, ghost>>

VarGetString(name) ==
    /\ LET r == Host_var_get_string(Begin(host), name)
       IN  /\ host' = r.host
           /\ last' = [op |-> "var_get_string", name |-> name, ret |-> r.ret]
    /\ UNCHANGED <<mem, resp, ghost>>

Config(key) ==
    /\ LET r == Host_config(Begin(host), key)
       IN  /\ host' = r.host
           /\ last' = [op |-> "config", name |-> key, ret |-> r.ret]
    /\ UNCHANGED <<mem, resp, ghost>>

HttpRequest(o, request, env) ==
    /\ resp[o].st = "none"
    /\ host.requests < MaxRequests
    /\ LET r == Host_http_request(Begin(host), request, env)
       IN  /\ host' = r.host
           /\ resp' = IF r.threw THEN resp ELSE [resp EXCEPT ![o] = r.ret]
           /\ last' = [op |-> "http_request", obj |-> o, request |-> request,
                       threw |-> r.threw]
           /\ ghost' = Forget(ghost, Written(r.host)
                                       \cup {RESPONSE_BODY, RESPONSE_HEADER \o <<"A">>})
    /\ UNCHANGED mem

RespBody(o) ==
    /\ resp[o].st = "live"
    /\ LET r == HttpResponse_body(Begin(host), resp[o])
       IN  /\ host' = r.host
           /\ last' = [op |-> "body", obj |-> o, ret |-> r.ret]
    /\ UNCHANGED <<mem, resp, ghost>>

RespHeader(o, name) ==
    /\ resp[o].st = "live"
    /\ LET r == HttpResponse_header(Begin(host), resp[o], name)
       IN  /\ host' = r.host
           /\ last' = [op |-> "header", obj |-> o, name |-> name, ret |-> r.ret]
    /\ UNCHANGED <<mem, resp, ghost>>

RespMoveConstruct(o, p) ==
    /\ resp[o].st = "none"
    /\ resp[p].st = "live"
    /\ LET r == HttpResponse_move_ctor(resp[p])
       IN  /\ resp' = [resp EXCEPT ![o] = r.self, ![p] = r.other]
           /\ host' = Begin(host)
           /\ last' = [op |-> "move_ctor", obj |-> o, other |-> p]
    /\ UNCHANGED <<mem, ghost>>

RespMoveAssign(o, p) ==
    /\ resp[o].st = "live"
    /\ resp[p].st = "live"
    /\ IF o = p
       THEN /\ host' = Begin(host)
            /\ resp' = resp
       ELSE LET r == HttpResponse_move_assign(Begin(host), resp[o], resp[p])
            IN  /\ host' = r.host
                /\ resp' = [resp EXCEPT ![o] = r.self, ![p] = r.other]
    /\ last' = [op |-> "move_assign", obj |-> o, other |-> p, was |-> resp[o].ptr]
    /\ UNCHANGED <<mem, ghost>>

RespDestroy(o) ==
    /\ resp[o].st = "live"
    /\ LET r == HttpResponse_dtor(Begin(host), resp[o])
       IN  /\ host' = r.host
           /\ resp' = [resp EXCEPT ![o] = r.self]
           /\ last' = [op |-> "~HttpResponse", obj |-> o, was |-> resp[o].ptr]
    /\ UNCHANGED <<mem, ghost>>

HostNext ==
    \/ \E name \in SetNames, value \in Values : VarSet(name, value)
    \/ \E name \in GetNames : VarGet(name)
    \/ \E name \in GetNames : VarGetString(name)
    \/ \E key \in ConfigKeys : Config(key)
    \/ \E o \in RespObjs, request \in Requests, env \in HttpEnvs :
          HttpRequest(o, request, env)
    \/ \E o \in RespObjs : RespBody(o)
    \/ \E o \in RespObjs, name \in HeaderKeySet : RespHeader(o, name)
    \/ \E o, p \in RespObjs : RespMoveConstruct(o, p)
    \/ \E o, p \in RespObjs : RespMoveAssign(o, p)
    \/ \E o \in RespObjs : RespDestroy(o)

SpecHost == HostInitStates /\ [][HostNext]_vars


(***************************************************************************)
(* The hello entry points.  Host primitives they use:                      *)
(***************************************************************************)
\* uint64_t extism_input_length()
InputLengthRet(h) == Len(h.input)

extism_input_length(h) ==
    Logged(h, [fn |-> "extism_input_length", ret |-> Len(h.input)])

\* void extism_input_load_u8(uint64_t offset, uint64_t length, uint8_t* buffer)
InputLoadRet(h, off, n) == SubSeq(h.input, off + 1, Min(off + n, Len(h.input)))

extism_input_load_u8(h, off, n) ==
    Logged(h, [fn |-> "extism_input_load_u8", off |-> off, len |-> n])

\* const uint8_t *extism_input_get(size_t *length)      (c-pdk)
extism_input_get(h) ==
    Logged(h, [fn |-> "extism_input_get", ret |-> Len(h.input)])

\* void extism_output_set(const uint8_t* data, uint64_t length)
extism_output_set(h, data, length) ==
    Logged(h, [fn |-> "extism_output_set", data |-> Take(data, length)])

\* void extism_error_set(const uint8_t* data, uint64_t length)
extism_error_set(h, data, length) ==
    Logged(h, [fn |-> "extism_error_set", data |-> Take(data, length)])

\* void extism_log_debug(const uint8_t* message, uint64_t message_length)
extism_log_debug(h, message, length) ==
    Logged(h, [fn |-> "extism_log_debug", data |-> Take(message, length)])

\* void extism_log_info(const uint8_t* message, uint64_t message_length)
extism_log_info(h, message, length) ==
    Logged(h, [fn |-> "extism_log_info", data |-> Take(message, length)])

(***************************************************************************)
(* Byte strings of the entry points.                                       *)
(***************************************************************************)
Quote == "\""
WORLD == <<"W", "o", "r", "l", "d">>
NAME_KEY == <<"\"", "n", "a", "m", "e", "\"">>
HELLO == <<"H", "e", "l", "l", "o", ",", " ">>
JSON_OPEN == <<"{", "\"", "g", "r", "e", "e", "t", "i", "n", "g", "\"", ":", "\"">>
JSON_CLOSE == <<"\"", "}">>
LOG_PREFIX == <<"C", "r", "e", "a", "t", "e", "d", " ", "g", "r", "e", "e", "t", "i", "n", "g", ":", " ">>
DEBUG_MSG == <<"H", "e", "l", "l", "o", " ", "f", "u", "n", "c", "t", "i", "o", "n", " ", "c", "a", "l", "l", "e", "d">>
ALLOC_FAILED == <<"M", "e", "m", "o", "r", "y", " ", "a", "l", "l", "o", "c", "a", "t", "i", "o", "n", " ", "f", "a", "i", "l", "e", "d">>
ERROR_PREFIX == <<"E", "r", "r", "o", "r", " ", "i", "n", " ", "h", "e", "l", "l", "o", " ", "f", "u", "n", "c", "t", "i", "o", "n", ":", " ">>
BAD_ALLOC == <<"s", "t", "d", ":", ":", "b", "a", "d", "_", "a", "l", "l", "o", "c">>

\* Sizes of the fixed buffers.
GreetingLogSize == 256      \* char greeting_log[256]   (cpp-pdk/hello_plugin.c)
ResultSize == 256           \* char result[256]         (cpp-pdk/hello_plugin.c)
NameBufSize == 256          \* char name_buf[256]       (c-pdk/hello_plugin.c)
NameCopyMax == 255          \* input_length < 255 ? input_length : 255
OutputSize == 512           \* char output[512]         (c-pdk/hello_plugin.c)

(***************************************************************************)
(* C strings and std::string searches.  Positions are 0-based; -1 stands   *)
(* for a null pointer and for std::string::npos.                           *)
(***************************************************************************)
npos == 0 - 1
NULL == 0 - 1

MinOf(S) == CHOOSE x \in S : \A y \in S : x <= y

\* The least position p >= pos at which `needle` occurs in s, or -1.
FindFrom(s, needle, pos) ==
    LET hits == {p \in pos..(Len(s) - Len(needle)) :
                    SubSeq(s, p + 1, p + Len(needle)) = needle}
    IN  IF hits = {} THEN 0 - 1 ELSE MinOf(hits)

\* strlen: the bytes before the first zero byte.
strlen(buf) ==
    LET nuls == {i \in 1..Len(buf) : buf[i] = NUL}
    IN  IF nuls = {} THEN Len(buf) ELSE MinOf(nuls) - 1

CStr(buf) == SubSeq(buf, 1, strlen(buf))

\* strstr(buf + from, needle) and strchr(buf + from, ch), as positions in buf.
strstr(buf, from, needle) == FindFrom(CStr(buf), needle, from)
strchr(buf, from, ch) == FindFrom(CStr(buf), <<ch>>, from)

\* std::string::find(str, pos)
find(str, needle, pos) == IF pos = npos THEN npos ELSE FindFrom(str, needle, pos)

\* std::string::substr(pos, n)
substr(str, pos, n) == SubSeq(str, pos + 1, Min(pos + n, Len(str)))

\* snprintf(buf, size, fmt, ...): what ends up in buf before the terminator.
snprintf(size, formatted) == Take(formatted, size - 1)

\* strdup(s) at allocation point `point`: a null pointer when it fails.
strdup(s, point, oom) ==
    IF point \in oom THEN [name |-> None, failed |-> {point}]
    ELSE [name |-> Some(CStr(s)), failed |-> {}]

(***************************************************************************)
(* int32_t hello() of cpp-pdk/hello_plugin.c.  `oom` names the allocations *)
(* that fail: "input_buf" (malloc of the input buffer), "name" (malloc of  *)
(* the extracted name), "strdup_world", "strdup_input".  The result says   *)
(* how the call ended, what it returned and which allocations failed.      *)
(***************************************************************************)
\* Lines 43-78: the name for a non-empty input held in input_buf.
hello_c_name(input_len, input_buf, oom) ==
    IF input_len > 2 /\ input_buf[1] = "{" /\ strstr(input_buf, 0, NAME_KEY) # NULL
    THEN LET name_start == strstr(input_buf, 0, NAME_KEY)
             colon == IF name_start # NULL THEN strchr(input_buf, name_start, ":") ELSE NULL
             quote == IF colon # NULL THEN strchr(input_buf, colon, Quote) ELSE NULL
             first == quote + 1
             name_end == IF quote # NULL THEN strchr(input_buf, first, Quote) ELSE NULL
         IN  IF name_end # NULL
             THEN IF "name" \in oom
                  THEN LET w == strdup(WORLD, "strdup_world", oom)
                       IN  [name |-> w.name, failed |-> {"name"} \cup w.failed]
                  ELSE [name |-> Some(SubSeq(input_buf, first + 1, name_end)),
                        failed |-> {}]
             ELSE strdup(WORLD, "strdup_world", oom)
    ELSE strdup(input_buf, "strdup_input", oom)

\* Lines 83-104: from the name to the return.
hello_c_finish(h, nm) ==
    IF ~nm.name.present
    THEN [host |-> extism_error_set(h, ALLOC_FAILED, strlen(ALLOC_FAILED)),
          outcome |-> "returned", ret |-> 1, failed |-> nm.failed]
    ELSE LET name == nm.name.value
             greeting_log == snprintf(GreetingLogSize, LOG_PREFIX \o HELLO \o name \o <<"!">>)
             h1 == extism_log_info(h, greeting_log, strlen(greeting_log))
             result == snprintf(ResultSize, JSON_OPEN \o HELLO \o name \o <<"!">> \o JSON_CLOSE)
         IN  [host |-> extism_output_set(h1, result, strlen(result)),
              outcome |-> "returned", ret |-> 0, failed |-> nm.failed]

hello_c(h, oom) ==
    LET h1 == extism_log_debug(h, DEBUG_MSG, strlen(DEBUG_MSG))
        input_len == InputLengthRet(h1)
        h2 == extism_input_length(h1)
    IN  IF input_len = 0
        THEN hello_c_finish(h2, strdup(WORLD, "strdup_world", oom))
        ELSE IF "input_buf" \in oom
        THEN [host |-> extism_error_set(h2, ALLOC_FAILED, strlen(ALLOC_FAILED)),
              outcome |-> "returned", ret |-> 1, failed |-> {"input_buf"}]
        ELSE LET input_buf == InputLoadRet(h2, 0, input_len) \o <<NUL>>
                 h3 == extism_input_load_u8(h2, 0, input_len)
             IN  hello_c_finish(h3, hello_c_name(input_len, input_buf, oom))

(***************************************************************************)
(* int32_t hello() of cpp-pdk/hello_plugin.cpp.  Every std::string and     *)
(* std::vector it builds may throw std::bad_alloc; `oom` names the points  *)
(* that do, in program order: "log_debug", "input_vector", "input_string", *)
(* "name", "greeting", "log_info", "result", and "catch" for the message   *)
(* built in the handler.  An exception leaving the handler leaves hello,   *)
(* an extern "C" function, without a return value: outcome "aborted".      *)
(***************************************************************************)
\* static std::vector<uint8_t> Host::input(), static std::string input_string()
Host_input_string(h) ==
    LET len == InputLengthRet(h)
    IN  [host |-> extism_input_load_u8(extism_input_length(h), 0, len),
         ret |-> InputLoadRet(h, 0, len)]

\* static void Host::output_string(const std::string& str)
Host_output_string(h, str) == extism_output_set(h, str, Len(str))

\* static void Host::error(const std::string& message)
Host_error(h, message) == extism_error_set(h, message, Len(message))

\* static void Host::log_debug / log_info(const std::string& message)
Host_log_debug(h, message) == extism_log_debug(h, message, Len(message))
Host_log_info(h, message) == extism_log_info(h, message, Len(message))

\* hello_cpp_name without the default for an empty input.
hello_cpp_name_NoDefault(input) ==
    IF find(input, <<"{">>, 0) # npos /\ find(input, NAME_KEY, 0) # npos
    THEN LET p0 == find(input, NAME_KEY, 0)
             p1 == find(input, <<":">>, p0)
             pos == find(input, <<Quote>>, p1)
             end == find(input, <<Quote>>, pos + 1)
         IN  IF pos # npos
             THEN IF end # npos THEN substr(input, pos + 1, end - pos - 1) ELSE WORLD
             ELSE WORLD
    ELSE input

\* Lines 26-51: the name for `input`.
hello_cpp_name(input) ==
    IF input = <<>> THEN WORLD
    ELSE IF find(input, <<"{">>, 0) # npos /\ find(input, NAME_KEY, 0) # npos
    THEN LET p0 == find(input, NAME_KEY, 0)
             p1 == find(input, <<":">>, p0)
             pos == find(input, <<Quote>>, p1)
             end == find(input, <<Quote>>, pos + 1)
         IN  IF pos # npos
             THEN IF end # npos THEN substr(input, pos + 1, end - pos - 1) ELSE WORLD
             ELSE WORLD
    ELSE input

\* The handler without its Host::error call.
hello_cpp_catch_Silent(h, oom, thrown) ==
    IF "catch" \in oom
    THEN [host |-> h, outcome |-> "aborted", ret |-> 0, failed |-> {thrown, "catch"}]
    ELSE [host |-> h, outcome |-> "returned", ret |-> 1, failed |-> {thrown}]

\* Lines 66-69: the handler.
hello_cpp_catch(h, oom, thrown) ==
    IF "catch" \in oom
    THEN [host |-> h, outcome |-> "aborted", ret |-> 0, failed |-> {thrown, "catch"}]
    ELSE [host |-> Host_error(h, ERROR_PREFIX \o BAD_ALLOC),
          outcome |-> "returned", ret |-> 1, failed |-> {thrown}]

\* Lines 53-65: from the name to the return.
hello_cpp_finish(h, name, oom) ==
    LET greeting == HELLO \o name \o <<"!">>
        h1 == Host_log_info(h, LOG_PREFIX \o greeting)
        result == JSON_OPEN \o greeting \o JSON_CLOSE
    IN  IF "greeting" \in oom THEN hello_cpp_catch(h, oom, "greeting")
        ELSE IF "log_info" \in oom THEN hello_cpp_catch(h, oom, "log_info")
        ELSE IF "result" \in oom THEN hello_cpp_catch(h1, oom, "result")
        ELSE [host |-> Host_output_string(h1, result),
              outcome |-> "returned", ret |-> 0, failed |-> {}]

hello_cpp(h, oom) ==
    LET h1 == Host_log_debug(h, DEBUG_MSG)
        len == InputLengthRet(h1)
        in == Host_input_string(h1)
    IN  IF "log_debug" \in oom THEN hello_cpp_catch(h, oom, "log_debug")
        ELSE IF len > 0 /\ "input_vector" \in oom
        THEN hello_cpp_catch(extism_input_length(h1), oom, "input_vector")
        ELSE IF len > 0 /\ "input_string" \in oom
        THEN hello_cpp_catch(in.host, oom, "input_string")
        ELSE IF "name" \in oom THEN hello_cpp_catch(in.host, oom, "name")
        ELSE hello_cpp_finish(in.host, hello_cpp_name(in.ret), oom)

(***************************************************************************)
(* int32_t hello(void) of c-pdk/hello_plugin.c: no allocation, status 0.   *)
(***************************************************************************)
hello_cpdk(h, oom) ==
    LET input_length == Len(h.input)
        h1 == extism_input_get(h)
        max_len == IF input_length < NameCopyMax THEN input_length ELSE NameCopyMax
        name_buf == SubSeq(h.input, 1, max_len) \o Zeros(NameBufSize - max_len)
        name == IF input_length > 0 THEN CStr(name_buf) ELSE WORLD
        output == snprintf(OutputSize, JSON_OPEN \o HELLO \o name \o <<"!">> \o JSON_CLOSE)
    IN  [host |-> extism_output_set(h1, output, strlen(output)),
         outcome |-> "returned", ret |-> 0, failed |-> {}]

(***************************************************************************)
(* The host holds an input of its choice and calls the entry points on it. *)
(* Inputs are a prefix, a core and a suffix.                               *)
(***************************************************************************)
LongLen == 260      \* length of the long plain-text input

Fragment(X) == <<"{">> \o NAME_KEY \o <<":", Quote>> \o X \o <<Quote, "}">>

FragmentNames == {<<>>, <<"a">>, <<"a", "b">>, <<"a", NUL, "b">>}

PlainTexts == {<<"a">>, <<"a", "b">>, <<"a", NUL, "b">>, <<NUL>>, [i \in 1..LongLen |-> "a"]}

Broken ==
    {<<"{">> \o NAME_KEY,
     <<"{">> \o NAME_KEY \o <<":">>,
     <<"{">> \o NAME_KEY \o <<":", Quote, "a">>,
     NAME_KEY \o <<":", Quote, "a", Quote>>}

Prefixes == {<<>>, <<"z">>, <<"{">>, <<NUL>>, <<"{">> \o NAME_KEY \o <<":", Quote, "b", Quote, ",">>}
Suffixes == {<<>>, <<"z">>, <<Quote>>, <<NUL>>}

Inputs ==
    {<<>>} \cup PlainTexts \cup Broken
        \cup {pre \o Fragment(X) \o suf :
                pre \in Prefixes, X \in FragmentNames, suf \in Suffixes}

AllocPoints ==
    {"input_buf", "name", "strdup_world", "strdup_input",
     "log_debug", "input_vector", "input_string", "greeting", "log_info", "result"}

\* No failure, one failure, "name" and then "strdup_world" (hello_plugin.c),
\* or one failure and then the handler's own (hello_plugin.cpp).
OomSets ==
    {{}} \cup {{p} : p \in AllocPoints} \cup {{"name", "strdup_world"}}
         \cup {{p, "catch"} : p \in AllocPoints}

HelloInit ==
    /\ \E input \in Inputs : host = [HostInit EXCEPT !.input = input]
    /\ mem = [o \in MemObjs |-> NoObject]
    /\ resp = [o \in RespObjs |-> NoResponse]
    /\ last = [op |-> "init"]
    /\ ghost = <<>>

Called(impl, r) ==
    /\ host' = r.host
    /\ last' = [op |-> "hello", impl |-> impl,
                outcome |-> r.outcome, ret |-> r.ret, oom |-> r.failed]
    /\ UNCHANGED <<mem, resp, ghost>>

\* `oom` is exactly the set of allocations that failed during the call.
HelloC(oom) ==
    LET r == hello_c(Begin(host), oom)
    IN  r.failed = oom /\ Called("hello_plugin.c", r)

HelloCpp(oom) ==
    LET r == hello_cpp(Begin(host), oom)
    IN  r.failed = oom /\ Called("hello_plugin.cpp", r)

HelloCPdk ==
    LET r == hello_cpdk(Begin(host), {})
    IN  r.failed = {} /\ Called("c-pdk/hello_plugin.c", r)

HelloNext ==
    \/ \E oom \in OomSets : HelloC(oom)
    \/ \E oom \in OomSets : HelloCpp(oom)
    \/ HelloCPdk

SpecHello == HelloInit /\ [][HelloNext]_vars

(***************************************************************************)
(* Properties of the ownership wrappers and the Host facade.               *)
(***************************************************************************)
LastCall == calls[Len(calls)]

\* C1: every extism_free call of a Memory operation releases a live block
\* handed out by extism_alloc, so no offset is released twice; the blocks
\* still allocated are exactly the offsets live Memory objects hold, so each
\* is released once its owner is destroyed; and destroying a moved-from
\* Memory (offset cleared to 0) makes no extism_free call at all.
C1_MemoryReleasedOnce ==
    /\ host.badFree = {}
    /\ DOMAIN host.blocks = {mem[o].offset : o \in {x \in MemObjs : mem[x].st = "live"}} \ {0}
    /\ (last.op = "~Memory" /\ last.was = 0) => calls = <<>>

\* C6: when extism_http_request returns a non-zero status, Host::http_request
\* throws and no HttpResponse is constructed; an HttpResponse is returned only
\* for status 0 and then holds exactly the handle the host wrote.
C6_HttpFailureReported ==
    last.op = "http_request" =>
        /\ LastCall.fn = "extism_http_request"
        /\ LastCall.status # 0 => (last.threw /\ resp[last.obj].st = "none")
        /\ ~last.threw =>
              /\ LastCall.status = 0
              /\ resp[last.obj] = [st |-> "live", ptr |-> LastCall.response]

\* C6 witness: the host wrote a response handle and still returned non-zero.
C6_Witness ==
    /\ last.op = "http_request"
    /\ LastCall.status # 0
    /\ LastCall.response # 0

\* The request variables Host::http_request has to write for `request`.
RequestVars(request) ==
    (REQUEST_URL :> request.url)
        @@ [n \in {REQUEST_HEADER \o k : k \in DOMAIN request.headers} |->
               request.headers[SubSeq(n, Len(REQUEST_HEADER) + 1, Len(n))]]
        @@ (IF request.body.present THEN (REQUEST_BODY :> request.body.value) ELSE <<>>)

\* C7: Host::http_request writes request:method, request:url, one
\* request:header:<name> per header and request:body (iff the request has a
\* body), each once through extism_var_set, and only then calls
\* extism_http_request, exactly once and with request argument 0; nothing is
\* written after that call.
C7_RequestCallSequence ==
    last.op = "http_request" =>
        LET n == Len(calls)
            want == RequestVars(last.request)
        IN  /\ LastCall.fn = "extism_http_request"
            /\ LastCall.request = 0
            /\ \A i \in 1..(n - 1) : calls[i].fn = "extism_var_set"
            /\ {calls[i].name : i \in 1..(n - 1)} = DOMAIN want \cup {REQUEST_METHOD}
            /\ n - 1 = Cardinality(DOMAIN want) + 1
            /\ \A i \in 1..(n - 1) :
                  calls[i].name \in DOMAIN want => calls[i].value = want[calls[i].name]

\* C7 witness: a request with two headers and a body has been made.
C7_Witness ==
    /\ last.op = "http_request"
    /\ Cardinality(DOMAIN last.request.headers) = 2
    /\ last.request.body.present

\* C8: the handle of a successful Host::http_request is released exactly once
\* over the lifetime of its HttpResponse, moves included: no extism_free call
\* names anything but a live block, live HttpResponse objects hold distinct
\* live handles, and destroying a moved-from HttpResponse (ptr cleared to 0)
\* makes no extism_free call.
C8_ResponseReleasedOnce ==
    /\ host.badFree = {}
    /\ \A o \in RespObjs :
          (resp[o].st = "live" /\ resp[o].ptr # 0) =>
              /\ resp[o].ptr \in DOMAIN host.blocks
              /\ \A p \in RespObjs \ {o} : resp[p].st = "live" => resp[p].ptr # resp[o].ptr
    /\ (last.op = "~HttpResponse" /\ last.was = 0) => calls = <<>>

\* C9: Host::var_get(name) after Host::var_set(name, v), with no set of that
\* name in between, returns a present value whose bytes are exactly v, the
\* empty sequence included.
C9_VarRoundTrip ==
    (last.op = "var_get" /\ last.name \in DOMAIN ghost) =>
        last.ret = Some(ghost[last.name])

\* C9 witness: a variable set to the empty sequence has been read back.
C9_Witness ==
    /\ last.op = "var_get"
    /\ last.name \in DOMAIN ghost
    /\ ghost[last.name] = <<>>

\* C10: var_get, var_get_string, config and header return an absent value
\* exactly when the host lookup returned the zero handle, body returns the
\* empty vector then, and on a zero handle the lookup is the only host call
\* (no extism_length, extism_load_u8 or extism_free).
C10_MissingIsAbsent ==
    last.op \in {"var_get", "var_get_string", "config", "header", "body"} =>
        /\ calls[1].fn = IF last.op = "config" THEN "extism_config_get" ELSE "extism_var_get"
        /\ last.op # "body" => (last.ret = None <=> calls[1].ret = 0)
        /\ (last.op = "body" /\ calls[1].ret = 0) => last.ret = <<>>
        /\ calls[1].ret = 0 => Len(calls) = 1

\* C10 witness: a configuration key the host does not know has been looked up.
C10_Witness ==
    /\ last.op = "config"
    /\ calls[1].ret = 0

(***************************************************************************)
(* Properties of the hello entry points.                                   *)
(***************************************************************************)
CallsOf(fn) == SelectSeq(calls, LAMBDA c : c.fn = fn)

Greeting(name) == JSON_OPEN \o HELLO \o name \o <<"!">> \o JSON_CLOSE

Contains(s, needle) == FindFrom(s, needle, 0) # npos

\* C2: a hello call that returns gives a non-zero status exactly when it
\* called extism_error_set, calls extism_output_set exactly once when it
\* returns 0 and never when it returns non-zero, failed allocations and
\* thrown exceptions included.
C2_StatusMatchesErrorSet ==
    (last.op = "hello" /\ last.outcome = "returned") =>
        /\ last.ret # 0 <=> CallsOf("extism_error_set") # <<>>
        /\ Len(CallsOf("extism_output_set")) = IF last.ret = 0 THEN 1 ELSE 0

\* C2 witness: an exception thrown after the greeting was logged has made
\* hello return non-zero.
C2_Witness ==
    /\ last.op = "hello"
    /\ last.outcome = "returned"
    /\ last.ret # 0
    /\ last.oom = {"result"}

\* C3 as stated: on an empty input every hello call returns 0 and passes
\* exactly {"greeting":"Hello, World!"} to extism_output_set.
C3_EmptyInputAlwaysGreetsWorld ==
    (last.op = "hello" /\ host.input = <<>>) =>
        /\ last.outcome = "returned"
        /\ last.ret = 0
        /\ CallsOf("extism_output_set") =
              <<[fn |-> "extism_output_set", data |-> Greeting(WORLD)]>>

\* C3: on an empty input a hello call in which no allocation fails returns 0
\* and passes exactly {"greeting":"Hello, World!"} to extism_output_set, once;
\* a call in which an allocation fails sets no output and, if it returns,
\* returns non-zero.
C3_EmptyInputGreetsWorld ==
    (last.op = "hello" /\ host.input = <<>>) =>
        /\ last.oom = {} =>
              /\ last.outcome = "returned"
              /\ last.ret = 0
              /\ CallsOf("extism_output_set") =
                    <<[fn |-> "extism_output_set", data |-> Greeting(WORLD)]>>
        /\ last.oom # {} =>
              /\ CallsOf("extism_output_set") = <<>>
              /\ last.outcome = "returned" => last.ret # 0

\* C3 witness: hello_plugin.cpp has greeted World on an empty input.
C3_Witness ==
    /\ last.op = "hello"
    /\ last.impl = "hello_plugin.cpp"
    /\ host.input = <<>>
    /\ last.oom = {}
    /\ LastCall = [fn |-> "extism_output_set", data |-> Greeting(WORLD)]

\* C4: on a non-empty input that does not contain both `{` and `"name"`, a
\* hello call in which no allocation fails passes exactly
\* {"greeting":"Hello, <input>!"} to extism_output_set, whatever the length
\* and the bytes of the input, in each implementation.
C4_PlainTextEchoed ==
    (/\ last.op = "hello"
     /\ last.oom = {}
     /\ host.input # <<>>
     /\ ~(Contains(host.input, <<"{">>) /\ Contains(host.input, NAME_KEY))) =>
        CallsOf("extism_output_set") =
            <<[fn |-> "extism_output_set", data |-> Greeting(host.input)]>>

\* C5: on an input containing {"name":"X"}, X without quotes, a call of a
\* JSON-aware hello in which no allocation fails passes exactly
\* {"greeting":"Hello, X!"} to extism_output_set, whatever surrounds the
\* fragment.
C5_NameExtracted ==
    (/\ last.op = "hello"
     /\ last.impl \in {"hello_plugin.c", "hello_plugin.cpp"}
     /\ last.oom = {}) =>
        \A X \in FragmentNames :
            Contains(host.input, Fragment(X)) =>
                CallsOf("extism_output_set") =
                    <<[fn |-> "extism_output_set", data |-> Greeting(X)]>>

(***************************************************************************)
(* Properties of the use of handles.                                       *)
(***************************************************************************)
Accesses == {"extism_length", "extism_load_u8", "extism_store_u8"}

\* C11, lookups: in Host::var_get, Host::config, HttpResponse::body and
\* HttpResponse::header a non-zero handle returned by the host is used in
\* the order extism_length, extism_load_u8 (offset 0, the full length),
\* extism_free, each once and on that handle, and nothing else is called.
C11_LookupOrder ==
    (last.op \in {"var_get", "config", "header", "body"} /\ calls[1].ret # 0) =>
        LET ptr == calls[1].ret
        IN  /\ Len(calls) = 4
            /\ calls[2].fn = "extism_length" /\ calls[2].ptr = ptr
            /\ calls[3].fn = "extism_load_u8" /\ calls[3].ptr = ptr
            /\ calls[3].off = 0 /\ calls[3].len = calls[2].ret
            /\ calls[4] = [fn |-> "extism_free", ptr |-> ptr]

\* C11, accesses: no extism_length, extism_load_u8 or extism_store_u8 call of
\* any operation names an offset that has already been passed to extism_free.
C11_NoAccessAfterRelease ==
    \A i \in 1..Len(calls) : calls[i].fn \in Accesses => ~calls[i].released

\* C11: a handle is never read after release: the lookups use a non-zero
\* handle in the order length, load, free, and no Memory operation (store,
\* load, len, move, destroy) issues a length, load or store call on an offset
\* already passed to extism_free.
C11_NeverReadAfterRelease == C11_LookupOrder /\ C11_NoAccessAfterRelease

\* C11 without offset 0: no access names a released non-zero offset.
C11_NoAccessAfterReleaseNonZero ==
    \A i \in 1..Len(calls) :
        (calls[i].fn \in Accesses /\ calls[i].ptr # 0) => ~calls[i].released

(***************************************************************************)
(* The two cpp-pdk entry points side by side.                              *)
(***************************************************************************)
\* hello_plugin.c lines 26 and 43: which of the three names is taken.
hello_c_decision(input) ==
    IF Len(input) = 0 THEN "default"
    ELSE IF Len(input) > 2 /\ input[1] = "{" /\ strstr(input \o <<NUL>>, 0, NAME_KEY) # NULL
    THEN "json"
    ELSE "literal"

\* hello_plugin.cpp lines 26 and 31-32: which of the three names is taken.
hello_cpp_decision(input) ==
    IF input = <<>> THEN "default"
    ELSE IF find(input, <<"{">>, 0) # npos /\ find(input, NAME_KEY, 0) # npos
    THEN "json"
    ELSE "literal"

OutputsOf(log) == SelectSeq(log, LAMBDA c : c.fn = "extism_output_set")

\* C12: on every input, hello of hello_plugin.c and hello of hello_plugin.cpp
\* (no allocation failing in either) make the same choice between the default
\* name, the extracted name and the literal name, return the same status and
\* pass the same bytes to extism_output_set.
C12_HelloImplementationsAgree ==
    (last.op = "hello" /\ last.impl = "hello_plugin.c" /\ last.oom = {}) =>
        LET r == hello_cpp(Begin(host), {})
        IN  /\ hello_c_decision(host.input) = hello_cpp_decision(host.input)
            /\ last.ret = r.ret
            /\ OutputsOf(calls) = OutputsOf(r.host.log)

\* C12 on the inputs both treat alike: without zero bytes, with a greeting
\* that fits the result buffer, and either free of `{` or starting with `{`
\* and containing "name".
C12_AgreeOnPlainInputs ==
    (/\ last.op = "hello" /\ last.impl = "hello_plugin.c" /\ last.oom = {}
     /\ ~Contains(host.input, <<NUL>>)
     /\ Len(Greeting(host.input)) < ResultSize
     /\ \/ ~Contains(host.input, <<"{">>)
        \/ /\ Take(host.input, 1) = <<"{">>
           /\ Contains(host.input, NAME_KEY)) =>
        LET r == hello_cpp(Begin(host), {})
        IN  /\ hello_c_decision(host.input) = hello_cpp_decision(host.input)
            /\ last.ret = r.ret
            /\ OutputsOf(calls) = OutputsOf(r.host.log)

=============================================================================
